---- MODULE Spec2Model ----
(***************************************************************************)
(* Audio transcription service: the request validation and provider        *)
(* dispatch pipeline of TranscriptionService.transcribe_audio, the         *)
(* constants it reads and the POST /transcribe handler that calls it.      *)
(*                                                                         *)
(* Strings that the code takes apart (file names, transcription texts)     *)
(* are sequences of one-character strings or of opaque word tokens;        *)
(* strings that are only compared are TLA+ strings.  Accents of the        *)
(* Portuguese messages are dropped.                                        *)
(***************************************************************************)
EXTENDS Integers, Sequences, FiniteSets, TLC

VARIABLES
    env,        \* the process environment read at import / construction
    clients,    \* self.groq_client / self.openai_client: TRUE when present
    req,        \* the arguments each request arrived with
    pc,         \* each request's position (its current suspension point)
    loc,        \* each request's locals in transcribe_audio
    fs,         \* scratch storage: path -> file
    calls,      \* per request, the upstream calls it issued (payloads)
    outcome,    \* per request, what the caller received
    trace,      \* per request, the pipeline stages it executed, in order
    interference \* file operations that touched a file created by another request

vars == <<env, clients, req, pc, loc, fs, calls, outcome, trace, interference>>

-----------------------------------------------------------------------------
(* Bounds *)

\* number of concurrent requests of the concurrent specification
MaxReq == 2
\* number of names the temporary directory can hand out
NumPaths == 2

-----------------------------------------------------------------------------
(* Python values *)

\* None, for optional strings
NONE == "<None>"

\* truthiness of an optional string: None and "" are falsy
Truthy(s) == s # NONE /\ s # ""

\* str.lower(), on the strings and characters the model draws
ToLower(s) ==
    CASE s = "OPENAI" -> "openai"
      [] s = "GROQ" -> "groq"
      [] s = "W" -> "w"
      [] s = "A" -> "a"
      [] s = "V" -> "v"
      [] OTHER -> s

LowerSeq(cs) == [i \in 1..Len(cs) |-> ToLower(cs[i])]

\* index of the last "." of a character sequence, 0 when there is none
RECURSIVE LastDot(_, _)
LastDot(cs, i) ==
    IF i = 0 THEN 0
    ELSE IF cs[i] = "." THEN i
    ELSE LastDot(cs, i - 1)

\* filename.split(".")[-1]
LastSegment(cs) == SubSeq(cs, LastDot(cs, Len(cs)) + 1, Len(cs))

Whitespace == {" ", "\t", "\n"}

RECURSIVE LStrip(_)
LStrip(t) ==
    IF t = <<>> THEN <<>>
    ELSE IF Head(t) \in Whitespace THEN LStrip(Tail(t))
    ELSE t

RECURSIVE RStrip(_)
RStrip(t) ==
    IF t = <<>> THEN <<>>
    ELSE IF t[Len(t)] \in Whitespace THEN RStrip(SubSeq(t, 1, Len(t) - 1))
    ELSE t

\* str.strip()
Strip(t) == RStrip(LStrip(t))

-----------------------------------------------------------------------------
(* constants.py *)

Provider == {"groq", "openai"}

Getenv(name, default) == IF env[name] = NONE THEN default ELSE env[name]

DEFAULT_PROVIDER ==
    LET s == ToLower(Getenv("DEFAULT_PROVIDER", "groq"))
    IN  IF s \in Provider THEN s ELSE "groq"

GROQ_MODELS == <<"whisper-large-v3", "whisper-large-v3-turbo", "distil-whisper-large-v3-en">>

OPENAI_MODELS == <<"whisper-1">>

AVAILABLE_MODELS == [p \in Provider |-> IF p = "groq" THEN GROQ_MODELS ELSE OPENAI_MODELS]

DEFAULT_MODELS ==
    [p \in Provider |->
        IF p = "groq" THEN Getenv("DEFAULT_GROQ_MODEL", "whisper-large-v3-turbo")
        ELSE Getenv("DEFAULT_OPENAI_MODEL", "whisper-1")]

SUPPORTED_AUDIO_FORMATS ==
    << <<"m","p","3">>, <<"m","p","4">>, <<"m","p","e","g">>, <<"m","p","g","a">>,
       <<"m","4","a">>, <<"w","a","v">>, <<"w","e","b","m">>, <<"f","l","a","c">>,
       <<"o","g","g">>, <<"o","p","u","s">> >>

MAX_FILE_SIZE == 25 * 1024 * 1024

\* the keys of SUPPORTED_LANGUAGES
SUPPORTED_LANGUAGES ==
    {"af","ar","hy","az","be","bs","bg","ca","zh","hr","cs","da","nl","en","et",
     "fi","fr","gl","de","el","he","hi","hu","is","id","it","ja","kn","kk","ko",
     "lv","lt","mk","ms","mr","mi","ne","no","fa","pl","pt","ro","ru","sr","sk",
     "sl","es","sw","sv","tl","ta","th","tr","uk","ur","vi","cy"}

DEFAULT_LANGUAGE == Getenv("DEFAULT_LANGUAGE", "auto")

Range(s) == {s[i] : i \in DOMAIN s}

-----------------------------------------------------------------------------
(* Outcomes: HTTPException(status_code, detail), an exception that is not  *)
(* an HTTPException, or a result dictionary                                *)

NoResult == [transcription |-> <<>>, provider |-> NONE, model |-> NONE,
             language |-> NONE, filename |-> <<>>]

NoOutcome == [kind |-> "none", status |-> 0, detail |-> <<>>, result |-> NoResult]

HTTPException(status, detail) ==
    [kind |-> "http_error", status |-> status, detail |-> detail, result |-> NoResult]

\* any exception that is not an HTTPException; str(e) is msg
RawException(msg) ==
    [kind |-> "exception", status |-> 0, detail |-> msg, result |-> NoResult]

Success(result) == [kind |-> "ok", status |-> 200, detail |-> <<>>, result |-> result]

IsError(o) == o.kind \in {"http_error", "exception"}

Digit(d) == CASE d = 0 -> "0" [] d = 1 -> "1" [] d = 2 -> "2" [] d = 3 -> "3"
              [] d = 4 -> "4" [] d = 5 -> "5" [] d = 6 -> "6" [] d = 7 -> "7"
              [] d = 8 -> "8" [] OTHER -> "9"

\* str(n) of a natural number, as a character sequence
RECURSIVE IntToStr(_)
IntToStr(n) == IF n < 10 THEN <<Digit(n)>> ELSE IntToStr(n \div 10) \o <<Digit(n % 10)>>

\* str(e): starlette renders an HTTPException as "<status_code>: <detail>"
StrOfError(o) ==
    IF o.kind = "http_error" THEN IntToStr(o.status) \o <<": ">> \o o.detail ELSE o.detail

-----------------------------------------------------------------------------
(* TranscriptionService: construction *)

\* _initialize_clients: a client exists only for a non-empty key (a
\* constructor that raises leaves the handle None, as an unset key does)
InitializeClients(e) ==
    [p \in Provider |->
        Truthy(IF p = "groq" THEN e["GROQ_API_KEY"] ELSE e["OPENAI_API_KEY"])]

-----------------------------------------------------------------------------
(* TranscriptionService: validators *)

\* file.size and file.size > MAX_FILE_SIZE  (size 0 stands for None and for 0)
TooLargeInclusive(size) == size # 0 /\ size >= MAX_FILE_SIZE

TooLarge(size) == size # 0 /\ size > MAX_FILE_SIZE

\* f"{size / (1024 * 1024):.1f}": MiB to one decimal place, rounded
SizeMb(size) ==
    LET tenths == (size * 10 + 512 * 1024) \div (1024 * 1024)
    IN  IntToStr(tenths \div 10) \o <<".">> \o IntToStr(tenths % 10)

\* _validate_file: the HTTPException it raises, or NoOutcome
ValidateFile(file) ==
    LET file_extension == LowerSeq(LastSegment(file.filename))
    IN  IF file.filename = <<>>
        THEN HTTPException(400, <<"Arquivo sem nome">>)
        ELSE IF file_extension \notin Range(SUPPORTED_AUDIO_FORMATS)
        THEN HTTPException(400, <<"Formato '">> \o file_extension \o <<"' nao suportado">>)
        ELSE IF TooLarge(file.size)
        THEN HTTPException(400, <<"Arquivo muito grande (">> \o SizeMb(file.size)
                                \o <<"MB). Tamanho maximo: ">>
                                \o IntToStr(MAX_FILE_SIZE \div (1024 * 1024)) \o <<"MB">>)
        ELSE NoOutcome

\* _validate_language: [err, selected_language]
ValidateLanguage(language) ==
    LET selected_language == IF Truthy(language) THEN language ELSE DEFAULT_LANGUAGE
    IN  IF selected_language = "auto"
        THEN [err |-> NoOutcome, selected_language |-> selected_language]
        ELSE IF selected_language \notin SUPPORTED_LANGUAGES
        THEN [err |-> HTTPException(400, <<"Codigo de idioma '", selected_language,
                                           "' nao suportado">>),
              selected_language |-> selected_language]
        ELSE [err |-> NoOutcome, selected_language |-> selected_language]

\* mutants of _validate_provider_and_model: without the client check, and
\* without the catalog check
ValidateProviderAndModelNoClientCheck(provider, model) ==
    LET selected_model == IF Truthy(model) THEN model ELSE DEFAULT_MODELS[provider]
    IN  IF selected_model \notin Range(AVAILABLE_MODELS[provider])
        THEN [err |-> HTTPException(400, <<"Modelo '", selected_model,
                                           "' nao disponivel para ", provider>>),
              selected_model |-> selected_model]
        ELSE [err |-> NoOutcome, selected_model |-> selected_model]

ValidateProviderAndModelNoCatalogCheck(provider, model) ==
    LET selected_model == IF Truthy(model) THEN model ELSE DEFAULT_MODELS[provider]
    IN  IF provider = "groq" /\ ~clients["groq"]
        THEN [err |-> HTTPException(503, <<"Groq API nao configurada. Verifique a variavel GROQ_API_KEY">>),
              selected_model |-> NONE]
        ELSE IF provider = "openai" /\ ~clients["openai"]
        THEN [err |-> HTTPException(503, <<"OpenAI API nao configurada. Verifique a variavel OPENAI_API_KEY">>),
              selected_model |-> NONE]
        ELSE [err |-> NoOutcome, selected_model |-> selected_model]

\* _validate_provider_and_model: [err, selected_model]
ValidateProviderAndModel(provider, model) ==
    LET selected_model == IF Truthy(model) THEN model ELSE DEFAULT_MODELS[provider]
    IN  IF provider = "groq" /\ ~clients["groq"]
        THEN [err |-> HTTPException(503, <<"Groq API nao configurada. Verifique a variavel GROQ_API_KEY">>),
              selected_model |-> NONE]
        ELSE IF provider = "openai" /\ ~clients["openai"]
        THEN [err |-> HTTPException(503, <<"OpenAI API nao configurada. Verifique a variavel OPENAI_API_KEY">>),
              selected_model |-> NONE]
        ELSE IF selected_model \notin Range(AVAILABLE_MODELS[provider])
        THEN [err |-> HTTPException(400, <<"Modelo '", selected_model,
                                           "' nao disponivel para ", provider>>),
              selected_model |-> selected_model]
        ELSE [err |-> NoOutcome, selected_model |-> selected_model]

-----------------------------------------------------------------------------
(* transcribe_audio: the validation prefix (no suspension point in it) *)

\* mutant of the validation prefix: the language is validated before the
\* provider and model
ValidateLanguageFirst(file, provider, model, language) ==
    LET selected_provider == IF provider # NONE THEN provider ELSE DEFAULT_PROVIDER
        f  == ValidateFile(file)
        lg == ValidateLanguage(language)
        pm == ValidateProviderAndModel(selected_provider, model)
        base == [selected_provider |-> selected_provider, selected_model |-> NONE,
                 selected_language |-> NONE]
    IN  IF IsError(f)
        THEN base @@ [err |-> f, stages |-> <<"file">>]
        ELSE IF IsError(lg.err)
        THEN base @@ [err |-> lg.err, stages |-> <<"file", "language">>]
        ELSE IF IsError(pm.err)
        THEN base @@ [err |-> pm.err, stages |-> <<"file", "language", "provider_model">>]
        ELSE [selected_provider |-> selected_provider, selected_model |-> pm.selected_model,
              selected_language |-> lg.selected_language, err |-> NoOutcome,
              stages |-> <<"file", "language", "provider_model">>]

\* transcribe_audio, lines 215-227: resolve the provider, then the three
\* validators in order; an exception leaves the function at once
Validate(file, provider, model, language) ==
    LET selected_provider == IF provider # NONE THEN provider ELSE DEFAULT_PROVIDER
        f  == ValidateFile(file)
        pm == ValidateProviderAndModel(selected_provider, model)
        lg == ValidateLanguage(language)
        base == [selected_provider |-> selected_provider, selected_model |-> NONE,
                 selected_language |-> NONE]
    IN  IF IsError(f)
        THEN base @@ [err |-> f, stages |-> <<"file">>]
        ELSE IF IsError(pm.err)
        THEN base @@ [err |-> pm.err, stages |-> <<"file", "provider_model">>]
        ELSE IF IsError(lg.err)
        THEN base @@ [err |-> lg.err, stages |-> <<"file", "provider_model", "language">>]
        ELSE [selected_provider |-> selected_provider, selected_model |-> pm.selected_model,
              selected_language |-> lg.selected_language, err |-> NoOutcome,
              stages |-> <<"file", "provider_model", "language">>]

-----------------------------------------------------------------------------
(* Scratch storage *)

Paths == DOMAIN fs

NoFile == [exists |-> FALSE, owner |-> 0, content |-> <<>>, suffix |-> <<>>]

\* mutant of the temporary-name choice: a name is handed out whether or not
\* a file of that name exists
AnyScratchPath(fsv) == Paths

\* tempfile.NamedTemporaryFile(delete=False): the file is created under a
\* name no existing file has (exclusive creation)
NewScratchPaths(fsv) == {p \in Paths : ~fsv[p].exists}

\* mutant of the cleanup: nothing is removed
CleanupNothing(fsv, path, unlinkOk) ==
    IF path = 0 THEN [fs |-> fsv, status |-> "none"]
    ELSE IF ~fsv[path].exists THEN [fs |-> fsv, status |-> "absent"]
    ELSE IF unlinkOk THEN [fs |-> fsv, status |-> "removed"]
    ELSE [fs |-> fsv, status |-> "failed"]

\* the finally block, lines 293-302: path 0 is temp_file_path = None;
\* os.unlink either removes the file or raises, which is logged
Cleanup(fsv, path, unlinkOk) ==
    IF path = 0 THEN [fs |-> fsv, status |-> "none"]
    ELSE IF ~fsv[path].exists THEN [fs |-> fsv, status |-> "absent"]
    ELSE IF unlinkOk THEN [fs |-> [fsv EXCEPT ![path] = NoFile], status |-> "removed"]
    ELSE [fs |-> fsv, status |-> "failed"]

\* the operations of request r on path p that touch another request's file
Foreign(r, op, fsv, p) ==
    IF p # 0 /\ fsv[p].exists /\ fsv[p].owner # r
    THEN {[op |-> op, by |-> r, owner |-> fsv[p].owner, path |-> p]}
    ELSE {}

-----------------------------------------------------------------------------
(* The provider routines: _transcribe_with_groq, _transcribe_with_openai *)

\* the name each routine puts in its error message
ProviderName(provider) == IF provider = "groq" THEN "Groq" ELSE "OpenAI"

\* transcription_params without its "file" entry (the open scratch file is
\* kept beside it): "language" is a key only when language != "auto"
BuildParams(model, language) ==
    [k \in {"model", "response_format"} \cup (IF language # "auto" THEN {"language"} ELSE {}) |->
        CASE k = "model" -> model
          [] k = "response_format" -> "text"
          [] OTHER -> language]

\* str(transcription) of an object that is not a string and has no .text
ObjectRepr == <<"<object>">>

\* what the upstream call can do: return a string, return an object with a
\* .text member, return an object without one, or raise
Texts == { <<"ola">>, <<" ", "ola", "\n">>, <<" ", "\n">>, <<>> }

Responses ==
    [shape : {"str"}, text : Texts]
        \cup {[shape |-> "object_with_text", text |-> <<"ola", " ">>],
              [shape |-> "object_without_text", text |-> <<>>],
              [shape |-> "raises", text |-> <<"Connection error.">>]}

\* mutant of the error wrapping: the routine's message lacks the cause
UpstreamErrorNoCause(provider, msg) ==
    HTTPException(500, <<"Erro na transcricao com ", ProviderName(provider)>>)

\* except Exception as e, lines 162-165 and 203-206
UpstreamError(provider, msg) ==
    HTTPException(500, <<"Erro na transcricao com ", ProviderName(provider), ": ">> \o msg)

\* lines 150-160 and 192-201, after the awaited call: [err, text]
Normalize(provider, resp) ==
    IF resp.shape = "raises"
    THEN [err |-> UpstreamError(provider, resp.text), text |-> <<>>]
    ELSE IF resp.shape = "str" \/ resp.shape = "object_with_text"
    THEN [err |-> NoOutcome, text |-> resp.text]
    ELSE IF provider = "groq"
    THEN [err |-> NoOutcome, text |-> ObjectRepr]
    ELSE [err |-> UpstreamError(provider, <<"object has no attribute 'text'">>), text |-> <<>>]

Sentinel == <<"[Nenhum conteudo detectado no audio]">>

\* mutant of the post-processing: no sentinel for an empty transcription
PostProcessNoSentinel(transcription) == Strip(transcription)

\* lines 269-274: the sentinel for an empty or all-whitespace text, then strip()
PostProcess(transcription) ==
    IF transcription = <<>> \/ Strip(transcription) = <<>>
    THEN Strip(Sentinel)
    ELSE Strip(transcription)

-----------------------------------------------------------------------------
(* The HTTP layer: POST /transcribe *)

\* main.py lines 102-108: an HTTPException passes, any other exception
\* becomes a 500
HttpWrap(o) ==
    IF o.kind = "exception"
    THEN HTTPException(500, <<"Erro interno durante transcricao: ">> \o o.detail)
    ELSE o

\* what the caller of request arguments a receives for the service's outcome o
Delivered(a, o) == IF a.entry = "http" THEN HttpWrap(o) ELSE o

-----------------------------------------------------------------------------
(* Requests *)

Reqs == DOMAIN pc

NoArgs == [entry |-> "none", filename |-> <<>>, size |-> 0, content |-> <<>>,
           provider |-> NONE, model |-> NONE, language |-> NONE]

NoResponse == [shape |-> "none", text |-> <<>>]

\* the locals of transcribe_audio, with what its finally block did (cleanup),
\* what the upstream call answered (response) and the return value or
\* exception in flight when the finally block was entered (pipeline)
NoLocals == [selected_provider |-> NONE, selected_model |-> NONE,
             selected_language |-> NONE, temp_file_path |-> 0, cleanup |-> "none",
             response |-> NoResponse, pipeline |-> NoOutcome]

\* the uploads: filename, declared size (0: none declared), byte content
Files ==
    [filename : {<<"v",".","m","p","3">>}, size : {0, MAX_FILE_SIZE, MAX_FILE_SIZE + 1},
     content : {<<>>, <<"RIFF">>}]
        \cup {[filename |-> <<>>, size |-> 0, content |-> <<"RIFF">>],
              [filename |-> <<"n",".","t","x","t">>, size |-> 0, content |-> <<"RIFF">>],
              [filename |-> <<"n",".","t","x","t">>, size |-> MAX_FILE_SIZE + 1, content |-> <<"RIFF">>],
              [filename |-> <<"a",".","b",".","W","A","V">>, size |-> MAX_FILE_SIZE, content |-> <<"RIFF">>]}

Models == {NONE, "whisper-1", "whisper-9"}

Languages == {NONE, "auto", "fr", "xx"}

Args(entry, files, providers, models, languages) ==
    {[entry |-> entry, filename |-> f.filename, size |-> f.size, content |-> f.content,
      provider |-> p, model |-> m, language |-> lg] :
        f \in files, p \in providers, m \in models, lg \in languages}

\* the form fields of POST /transcribe; a language field can be sent, the
\* handler declares none
HttpArgs == Args("http", Files, {NONE, "groq", "OPENAI", "azure"}, Models, {NONE, "fr"})

\* the arguments of a direct call of TranscriptionService.transcribe_audio
ServiceArgs == Args("service", Files, {NONE} \cup Provider, Models, Languages)

-----------------------------------------------------------------------------
(* Actions *)

\* mutant of the finally block: an os.unlink that raises is not caught, and
\* its exception replaces the return value or the exception in flight
AfterCleanupEscalates(o, status) ==
    IF status = "failed" THEN RawException(<<"OSError">>) ELSE o

\* lines 296-302: what leaves the finally block entered with o in flight;
\* an os.unlink that raises is caught and logged
AfterCleanup(o, status) == o

\* leaving transcribe_audio with outcome o: the finally block runs, then the
\* caller receives what leaves it
Return(r, a, o, l, stages, fsv) ==
    \E unlinkOk \in BOOLEAN :
        LET c == Cleanup(fsv, l.temp_file_path, unlinkOk)
        IN  /\ fs' = c.fs
            /\ interference' = interference \cup
                   (IF c.status = "removed" THEN Foreign(r, "unlink", fsv, l.temp_file_path) ELSE {})
            /\ loc' = [loc EXCEPT ![r] = [l EXCEPT !.cleanup = c.status, !.pipeline = o]]
            /\ trace' = [trace EXCEPT ![r] = stages \o (IF l.temp_file_path # 0 THEN <<"cleanup">> ELSE <<>>)]
            /\ outcome' = [outcome EXCEPT ![r] = Delivered(a, AfterCleanup(o, c.status))]
            /\ pc' = [pc EXCEPT ![r] = "done"]

\* transcribe_audio from its entry to its first suspension point, await file.read()
Transcribe(r, a, provider, model, language) ==
    LET file == [filename |-> a.filename, size |-> a.size, content |-> a.content]
        v == Validate(file, provider, model, language)
        l == [selected_provider |-> v.selected_provider, selected_model |-> v.selected_model,
              selected_language |-> v.selected_language, temp_file_path |-> 0, cleanup |-> "none",
              response |-> NoResponse, pipeline |-> NoOutcome]
    IN  IF IsError(v.err)
        THEN Return(r, a, v.err, l, v.stages, fs)
        ELSE \/ \E p \in NewScratchPaths(fs) :
                  /\ fs' = [fs EXCEPT ![p] = [exists |-> TRUE, owner |-> r, content |-> <<>>,
                                              suffix |-> LastSegment(a.filename)]]
                  /\ interference' = interference \cup Foreign(r, "create", fs, p)
                  /\ loc' = [loc EXCEPT ![r] = [l EXCEPT !.temp_file_path = p]]
                  /\ trace' = [trace EXCEPT ![r] = v.stages \o <<"scratch">>]
                  /\ pc' = [pc EXCEPT ![r] = "read"]
                  /\ UNCHANGED outcome
             \/ \* NamedTemporaryFile raises: temp_file_path is still None
                Return(r, a, RawException(<<"OSError">>), l, v.stages \o <<"scratch">>, fs)

\* POST /transcribe (main.py): parse the provider, call the service without a language
HttpTranscribe(r, a) ==
    /\ pc[r] = "new"
    /\ req' = [req EXCEPT ![r] = a]
    /\ UNCHANGED <<env, clients, calls>>
    /\ IF Truthy(a.provider) /\ ToLower(a.provider) \notin Provider
       THEN /\ outcome' = [outcome EXCEPT ![r] =
                               HTTPException(400, <<"Provider invalido '", a.provider, "'">>)]
            /\ pc' = [pc EXCEPT ![r] = "done"]
            /\ UNCHANGED <<loc, fs, trace, interference>>
       ELSE Transcribe(r, a, IF Truthy(a.provider) THEN ToLower(a.provider) ELSE NONE,
                       a.model, NONE)

\* a direct call of TranscriptionService.transcribe_audio
ServiceTranscribe(r, a) ==
    /\ pc[r] = "new"
    /\ req' = [req EXCEPT ![r] = a]
    /\ UNCHANGED <<env, clients, calls>>
    /\ Transcribe(r, a, a.provider, a.model, a.language)

\* content = await file.read() returns; lines 243-246 up to the awaited open
ReadDone(r) ==
    /\ pc[r] = "read"
    /\ UNCHANGED <<env, clients, req, calls>>
    /\ IF req[r].content = <<>>
       THEN Return(r, req[r],
                   HTTPException(400, <<"Erro ao processar arquivo: ">>
                                      \o StrOfError(HTTPException(400, <<"Arquivo vazio">>))),
                   loc[r], trace[r] \o <<"read">>, fs)
       ELSE /\ pc' = [pc EXCEPT ![r] = "write"]
            /\ trace' = [trace EXCEPT ![r] = trace[r] \o <<"read">>]
            /\ UNCHANGED <<loc, fs, outcome, interference>>

\* the awaited scratch write returns or raises; on return the selected
\* routine builds its payload, opens the scratch file and awaits the upstream call
WriteDone(r) ==
    LET l == loc[r]
        p == l.temp_file_path
        written == [exists |-> TRUE, owner |-> IF fs[p].exists THEN fs[p].owner ELSE r,
                    content |-> req[r].content, suffix |-> LastSegment(req[r].filename)]
        fsw == [fs EXCEPT ![p] = written]
    IN  /\ pc[r] = "write"
        /\ UNCHANGED <<env, clients, req>>
        /\ \/ /\ UNCHANGED calls
              /\ Return(r, req[r],
                        HTTPException(400, <<"Erro ao processar arquivo: ", "OSError">>),
                        l, trace[r] \o <<"write">>, fs)
           \/ IF ~clients[l.selected_provider]
              THEN /\ UNCHANGED calls
                   /\ Return(r, req[r],
                             HTTPException(503, <<ProviderName(l.selected_provider),
                                                  " client nao inicializado">>),
                             l, trace[r] \o <<"write", "dispatch">>, fsw)
              ELSE /\ fs' = fsw
                   /\ interference' = interference \cup Foreign(r, "write", fs, p)
                                                   \cup Foreign(r, "read", fs, p)
                   /\ calls' = [calls EXCEPT ![r] = Append(calls[r],
                                   [endpoint |-> l.selected_provider,
                                    params |-> BuildParams(l.selected_model, l.selected_language),
                                    file |-> [path |-> p, content |-> written.content]])]
                   /\ pc' = [pc EXCEPT ![r] = "call"]
                   /\ trace' = [trace EXCEPT ![r] = trace[r] \o <<"write", "dispatch">>]
                   /\ UNCHANGED <<loc, outcome>>

\* the awaited upstream call returns resp or raises; normalization,
\* post-processing, the result, the finally block
UpstreamDone(r, resp) ==
    LET l == [loc[r] EXCEPT !.response = resp]
        t == Normalize(l.selected_provider, resp)
        result == [transcription |-> PostProcess(t.text),
                   provider |-> l.selected_provider,
                   model |-> l.selected_model,
                   language |-> l.selected_language,
                   filename |-> IF req[r].filename # <<>> THEN req[r].filename
                                ELSE <<"arquivo_sem_nome">>]
    IN  /\ pc[r] = "call"
        /\ UNCHANGED <<env, clients, req, calls>>
        /\ IF IsError(t.err)
           THEN Return(r, req[r], t.err, l, trace[r] \o <<"upstream">>, fs)
           ELSE Return(r, req[r], Success(result), l,
                       trace[r] \o <<"upstream", "postprocess">>, fs)

-----------------------------------------------------------------------------
(* Specifications *)

EnvValues ==
    [GROQ_API_KEY : {NONE, "gsk"}, OPENAI_API_KEY : {NONE, "sk"},
     DEFAULT_PROVIDER : {NONE, "OPENAI", "azure"},
     DEFAULT_GROQ_MODEL : {NONE, "whisper-9"},
     DEFAULT_OPENAI_MODEL : {NONE, "whisper-9"},
     DEFAULT_LANGUAGE : {NONE, "fr"}]

InitFor(requests, paths, envs) ==
    /\ env \in envs
    /\ clients = InitializeClients(env)
    /\ req = [r \in requests |-> NoArgs]
    /\ pc = [r \in requests |-> "new"]
    /\ loc = [r \in requests |-> NoLocals]
    /\ fs = [p \in paths |-> NoFile]
    /\ calls = [r \in requests |-> <<>>]
    /\ outcome = [r \in requests |-> NoOutcome]
    /\ trace = [r \in requests |-> <<>>]
    /\ interference = {}

\* one request, every combination of environment and arguments
Init == InitFor({1}, {1}, EnvValues)

Next ==
    \/ \E r \in Reqs, a \in HttpArgs : HttpTranscribe(r, a)
    \/ \E r \in Reqs, a \in ServiceArgs : ServiceTranscribe(r, a)
    \/ \E r \in Reqs : ReadDone(r)
    \/ \E r \in Reqs : WriteDone(r)
    \/ \E r \in Reqs, resp \in Responses : UpstreamDone(r, resp)

Spec == Init /\ [][Next]_vars

\* MaxReq concurrent requests with valid uploads for configured providers,
\* each with its own byte content, interleaved at every suspension point
ConcEnv ==
    [GROQ_API_KEY : {"gsk"}, OPENAI_API_KEY : {"sk"}, DEFAULT_PROVIDER : {NONE},
     DEFAULT_GROQ_MODEL : {NONE}, DEFAULT_OPENAI_MODEL : {NONE}, DEFAULT_LANGUAGE : {NONE}]

ConcFiles(r) ==
    {[filename |-> <<"v",".","m","p","3">>, size |-> 0, content |-> <<"RIFF">> \o IntToStr(r)]}

ConcResponses ==
    {[shape |-> "str", text |-> <<"ola">>], [shape |-> "raises", text |-> <<"Connection error.">>]}

InitConc == InitFor(1..MaxReq, 1..NumPaths, ConcEnv)

NextConc ==
    \/ \E r \in Reqs : \E a \in Args("http", ConcFiles(r), {NONE, "OPENAI"}, {NONE}, {NONE}) :
           HttpTranscribe(r, a)
    \/ \E r \in Reqs : \E a \in Args("service", ConcFiles(r), Provider, {NONE}, {NONE}) :
           ServiceTranscribe(r, a)
    \/ \E r \in Reqs : ReadDone(r)
    \/ \E r \in Reqs : WriteDone(r)
    \/ \E r \in Reqs, resp \in ConcResponses : UpstreamDone(r, resp)

SpecConc == InitConc /\ [][NextConc]_vars

-----------------------------------------------------------------------------
(* Vocabulary of the properties *)

Done(r) == pc[r] = "done"

\* the request reached TranscriptionService.transcribe_audio
EnteredService(r) == trace[r] # <<>>

FileOf(a) == [filename |-> a.filename, size |-> a.size, content |-> a.content]

\* the language argument transcribe_audio was called with
PassedLanguage(a) == IF a.entry = "http" THEN NONE ELSE a.language

\* the model the request is validated with: the given one, else the default
EffectiveModel(r) ==
    IF Truthy(req[r].model) THEN req[r].model ELSE DEFAULT_MODELS[loc[r].selected_provider]

ScratchCreated(r) == loc[r].temp_file_path # 0

\* the scratch file request r created is still in scratch storage
ScratchExists(r) ==
    LET p == loc[r].temp_file_path
    IN  p # 0 /\ fs[p].exists /\ fs[p].owner = r

NoScratchNoCall(r) ==
    /\ loc[r].temp_file_path = 0
    /\ calls[r] = <<>>
    /\ \A i \in DOMAIN trace[r] : trace[r][i] \in {"file", "provider_model", "language"}

-----------------------------------------------------------------------------
(* C1 *)

\* C1 as stated: whenever a transcribe call that created a scratch file has
\* returned or raised, that scratch file no longer exists.
C1_ScratchGoneOnEveryExit ==
    \A r \in Reqs : Done(r) /\ ScratchCreated(r) => ~ScratchExists(r)

\* C1 amended: whenever a transcribe call that created a scratch file has
\* returned or raised, its finally block has tried to delete the file, and the
\* file no longer exists unless that delete itself failed.
C1_ScratchGoneUnlessUnlinkFails ==
    \A r \in Reqs :
        Done(r) /\ ScratchCreated(r) =>
            /\ loc[r].cleanup \in {"removed", "absent", "failed"}
            /\ loc[r].cleanup # "failed" => ~ScratchExists(r)

\* a call whose upstream provider call failed has returned and its scratch
\* file is gone
C1_Witness ==
    \E r \in Reqs :
        /\ Done(r) /\ ScratchCreated(r)
        /\ loc[r].response.shape = "raises" /\ outcome[r].status = 500
        /\ loc[r].cleanup = "removed" /\ ~ScratchExists(r)

-----------------------------------------------------------------------------
(* C2 *)

\* C2: the validators run in the order file, provider/model, language and the
\* first failure ends the call: the caller receives the error of the earliest
\* failing stage, the later validators have not run, and no scratch file was
\* created and no upstream call made.
C2_ValidationOrderFailFast ==
    \A r \in Reqs :
        Done(r) /\ EnteredService(r) =>
            LET f  == ValidateFile(FileOf(req[r]))
                pm == ValidateProviderAndModel(loc[r].selected_provider, req[r].model)
                lg == ValidateLanguage(PassedLanguage(req[r]))
            IN  /\ IsError(f) =>
                    outcome[r] = f /\ trace[r] = <<"file">> /\ NoScratchNoCall(r)
                /\ ~IsError(f) /\ IsError(pm.err) =>
                    /\ outcome[r] = pm.err
                    /\ trace[r] = <<"file", "provider_model">>
                    /\ NoScratchNoCall(r)
                /\ ~IsError(f) /\ ~IsError(pm.err) /\ IsError(lg.err) =>
                    /\ outcome[r] = lg.err
                    /\ trace[r] = <<"file", "provider_model", "language">>
                    /\ NoScratchNoCall(r)

\* a request with three faults (bad file, unconfigured provider, unsupported
\* language) has failed with the file error
C2_Witness ==
    \E r \in Reqs :
        /\ Done(r) /\ EnteredService(r)
        /\ IsError(ValidateFile(FileOf(req[r])))
        /\ ~clients[loc[r].selected_provider]
        /\ IsError(ValidateLanguage(PassedLanguage(req[r])).err)
        /\ outcome[r] = ValidateFile(FileOf(req[r]))

-----------------------------------------------------------------------------
(* C3 *)

\* C3 as stated: a transcribe call whose resolved provider has no client
\* handle fails with 503, and no upstream call is made.
C3_UnconfiguredProviderIs503 ==
    \A r \in Reqs :
        Done(r) /\ EnteredService(r) /\ ~clients[loc[r].selected_provider] =>
            outcome[r].kind = "http_error" /\ outcome[r].status = 503 /\ calls[r] = <<>>

\* C3 amended: a transcribe call whose file passes file validation and whose
\* resolved provider has no client handle fails with 503; with or without a
\* valid file, a call for a provider without client handle makes no upstream
\* call and creates no scratch file.
C3_UnconfiguredProviderIs503ForValidFile ==
    \A r \in Reqs :
        Done(r) /\ EnteredService(r) /\ ~clients[loc[r].selected_provider] =>
            /\ NoScratchNoCall(r)
            /\ outcome[r].kind = "http_error"
            /\ trace[r] # <<"file">> => outcome[r].status = 503

\* a call with a valid file for an unconfigured provider has failed with 503
C3_Witness ==
    \E r \in Reqs :
        /\ Done(r) /\ EnteredService(r) /\ ~clients[loc[r].selected_provider]
        /\ trace[r] = <<"file", "provider_model">>
        /\ outcome[r].status = 503

-----------------------------------------------------------------------------
(* C4 *)

\* C4: a transcribe call for a provider with a client handle and an effective
\* model outside that provider's catalog fails with 400, creates no scratch
\* file and makes no upstream call.
C4_UnknownModelIs400 ==
    \A r \in Reqs :
        ( /\ Done(r) /\ EnteredService(r)
          /\ clients[loc[r].selected_provider]
          /\ EffectiveModel(r) \notin Range(AVAILABLE_MODELS[loc[r].selected_provider]) ) =>
            /\ outcome[r].kind = "http_error" /\ outcome[r].status = 400
            /\ NoScratchNoCall(r)

\* a call with a valid file, a configured provider and a named model outside
\* its catalog has failed with 400 at the provider/model stage
C4_Witness ==
    \E r \in Reqs :
        /\ Done(r) /\ EnteredService(r)
        /\ clients[loc[r].selected_provider]
        /\ req[r].model # NONE
        /\ EffectiveModel(r) \notin Range(AVAILABLE_MODELS[loc[r].selected_provider])
        /\ trace[r] = <<"file", "provider_model">>
        /\ outcome[r].status = 400

-----------------------------------------------------------------------------
(* C5 *)

\* C5: every provider's default model is in that provider's model list,
\* whatever the environment overrides are; so a call that names no model, with
\* a valid file and a configured provider, passes the provider/model stage.
C5_DefaultModelInCatalog ==
    /\ \A p \in Provider : DEFAULT_MODELS[p] \in Range(AVAILABLE_MODELS[p])
    /\ \A r \in Reqs :
           ( /\ Done(r) /\ EnteredService(r) /\ req[r].model = NONE
             /\ ~IsError(ValidateFile(FileOf(req[r])))
             /\ clients[loc[r].selected_provider] ) =>
               trace[r] # <<"file", "provider_model">>

-----------------------------------------------------------------------------
(* C6 *)

\* C6: every payload sent upstream has a language entry exactly when the
\* resolved language is not "auto"; a request that carries a language other
\* than "auto" is sent with that language, and a request without language
\* under the default language "auto" is sent without the entry.
C6_LanguageInPayload ==
    \A r \in Reqs : \A i \in DOMAIN calls[r] :
        LET params == calls[r][i].params
        IN  /\ ("language" \in DOMAIN params) <=> (loc[r].selected_language # "auto")
            /\ Truthy(req[r].language) /\ req[r].language # "auto" =>
                   "language" \in DOMAIN params /\ params["language"] = req[r].language
            /\ req[r].language = NONE /\ DEFAULT_LANGUAGE = "auto" =>
                   "language" \notin DOMAIN params

-----------------------------------------------------------------------------
(* C7 *)

InFlight(r) == pc[r] \in {"read", "write", "call"}

\* the provider a request resolves to: the one it names, else the default
ResolvedProvider(a) == IF Truthy(a.provider) THEN ToLower(a.provider) ELSE DEFAULT_PROVIDER

\* C7: concurrent requests hold pairwise distinct scratch paths while in
\* flight, no request creates, writes, reads or deletes a scratch file of
\* another request, each upstream call carries the bytes of its own request,
\* and each result echoes the provider and model its own request resolves to.
C7_ConcurrentRequestsIsolated ==
    /\ \A r1, r2 \in Reqs :
           r1 # r2 /\ InFlight(r1) /\ InFlight(r2) =>
               loc[r1].temp_file_path # loc[r2].temp_file_path
    /\ interference = {}
    /\ \A r \in Reqs : \A i \in DOMAIN calls[r] :
           calls[r][i].file.content = req[r].content
    /\ \A r \in Reqs :
           Done(r) /\ outcome[r].kind = "ok" =>
               /\ outcome[r].result.provider = ResolvedProvider(req[r])
               /\ outcome[r].result.model =
                      (IF Truthy(req[r].model) THEN req[r].model
                       ELSE DEFAULT_MODELS[ResolvedProvider(req[r])])

\* two requests for different providers await their upstream calls at the
\* same time
C7_Witness ==
    \E r1, r2 \in Reqs :
        /\ pc[r1] = "call" /\ pc[r2] = "call"
        /\ loc[r1].selected_provider = "groq" /\ loc[r2].selected_provider = "openai"

-----------------------------------------------------------------------------
(* C8 *)

IsSuffix(m, d) == Len(m) <= Len(d) /\ SubSeq(d, Len(d) - Len(m) + 1, Len(d)) = m

\* C8: a request makes at most one upstream call, to the endpoint of its
\* resolved provider; when that call raises, the caller receives a 500 whose
\* message names the provider and ends with the message of the failure.
C8_UpstreamFailureIs500NoRetry ==
    \A r \in Reqs :
        /\ Len(calls[r]) <= 1
        /\ \A i \in DOMAIN calls[r] : calls[r][i].endpoint = ResolvedProvider(req[r])
        /\ Done(r) /\ loc[r].response.shape = "raises" =>
               /\ outcome[r].kind = "http_error" /\ outcome[r].status = 500
               /\ ProviderName(ResolvedProvider(req[r])) \in Range(outcome[r].detail)
               /\ IsSuffix(loc[r].response.text, outcome[r].detail)
               /\ Len(calls[r]) = 1

\* a request whose upstream call raised has failed with 500
C8_Witness ==
    \E r \in Reqs :
        /\ Done(r) /\ loc[r].response.shape = "raises"
        /\ outcome[r].status = 500 /\ Len(calls[r]) = 1

-----------------------------------------------------------------------------
(* C9 *)

HasSupportedName(a) ==
    a.filename # <<>> /\ LowerSeq(LastSegment(a.filename)) \in Range(SUPPORTED_AUDIO_FORMATS)

\* C9: with a non-empty filename and a supported extension, a declared size
\* of exactly MAX_FILE_SIZE passes file validation (the provider/model
\* validator runs next) and a declared size of MAX_FILE_SIZE + 1 fails with
\* 400 at the file stage.
C9_SizeLimitInclusive ==
    \A r \in Reqs :
        Done(r) /\ EnteredService(r) /\ HasSupportedName(req[r]) =>
            /\ req[r].size = MAX_FILE_SIZE =>
                   Len(trace[r]) >= 2 /\ trace[r][2] = "provider_model"
            /\ req[r].size = MAX_FILE_SIZE + 1 =>
                   /\ trace[r] = <<"file">>
                   /\ outcome[r].kind = "http_error" /\ outcome[r].status = 400

\* an upload of exactly MAX_FILE_SIZE bytes has been transcribed
C9_Witness ==
    \E r \in Reqs :
        /\ Done(r) /\ HasSupportedName(req[r]) /\ req[r].size = MAX_FILE_SIZE
        /\ outcome[r].kind = "ok"

-----------------------------------------------------------------------------
(* C10 *)

AllWhitespace(t) == \A i \in DOMAIN t : t[i] \in Whitespace

\* C10: when the upstream call returns an empty or all-whitespace text the
\* call succeeds with the sentinel as transcription; the transcription of
\* every successful result is non-empty and neither starts nor ends with
\* whitespace.
C10_EmptyTranscriptionBecomesSentinel ==
    \A r \in Reqs :
        Done(r) =>
            /\ ( /\ loc[r].response.shape \in {"str", "object_with_text"}
                 /\ AllWhitespace(loc[r].response.text) ) =>
                   outcome[r].kind = "ok" /\ outcome[r].result.transcription = Sentinel
            /\ outcome[r].kind = "ok" =>
                   LET t == outcome[r].result.transcription
                   IN  /\ t # <<>>
                       /\ t[1] \notin Whitespace
                       /\ t[Len(t)] \notin Whitespace

\* an upstream answer of whitespace only has been reported as a success
\* with the sentinel
C10_Witness ==
    \E r \in Reqs :
        /\ Done(r)
        /\ loc[r].response = [shape |-> "str", text |-> <<" ", "\n">>]
        /\ outcome[r].kind = "ok" /\ outcome[r].result.transcription = Sentinel

-----------------------------------------------------------------------------
(* C11 *)

\* C11: for both providers, an upstream answer that is a string or an object
\* with a text member yields a success whose transcription is that text
\* (trimmed, or the sentinel when it is blank); an answer of neither shape
\* makes the call fail with 500 and never yields a success.
C11_ResponseNormalization ==
    \A r \in Reqs :
        Done(r) =>
            /\ loc[r].response.shape \in {"str", "object_with_text"} =>
                   /\ outcome[r].kind = "ok"
                   /\ outcome[r].result.transcription =
                          (IF AllWhitespace(loc[r].response.text) THEN Sentinel
                           ELSE Strip(loc[r].response.text))
            /\ loc[r].response.shape = "object_without_text" =>
                   outcome[r].kind = "http_error" /\ outcome[r].status = 500

-----------------------------------------------------------------------------
(* C12 *)

\* C12: when the delete of the scratch file fails, the caller receives what
\* the pipeline had produced when the finally block was entered: the same
\* result after a success, the same error kind and message after a failure.
C12_CleanupFailureNotEscalated ==
    \A r \in Reqs :
        Done(r) /\ loc[r].cleanup = "failed" =>
            /\ outcome[r] = Delivered(req[r], loc[r].pipeline)
            /\ loc[r].pipeline.kind = "ok" =>
                   outcome[r].kind = "ok" /\ outcome[r].result = loc[r].pipeline.result
            /\ loc[r].pipeline.kind = "http_error" =>
                   /\ outcome[r].kind = "http_error"
                   /\ outcome[r].status = loc[r].pipeline.status
                   /\ outcome[r].detail = loc[r].pipeline.detail

\* a transcription has succeeded although the delete of its scratch file failed
C12_Witness ==
    \E r \in Reqs :
        /\ Done(r) /\ loc[r].cleanup = "failed" /\ ScratchExists(r)
        /\ loc[r].pipeline.kind = "ok" /\ outcome[r].kind = "ok"
        /\ outcome[r].result.transcription = <<"ola">>

====
